---- MODULE Spec2Model ----
(***************************************************************************)
(* A model of or_urdf's URDF loader (src/src/urdf_loader.cpp): the         *)
(* package:// and file:// URI resolver with its process-wide cache, the    *)
(* joint type table, and URDFLoader::load, which translates the links,     *)
(* resolves the joint order from the optional YAML side file, translates   *)
(* the joints and hands the body to the OpenRAVE environment.              *)
(*                                                                         *)
(* std::string values are sequences of one-character strings, so that      *)
(* find, erase and substr are computed as the code computes them.  A null  *)
(* boost::shared_ptr is the record Null.  Reals are small integers.        *)
(***************************************************************************)
EXTENDS Integers, Sequences, FiniteSets, TLC

\* ------------------------------------------------------------------ bounds

\* The largest number of joints of a URDF model (a tree: one link more than
\* joints) whose links carry every combination of collision and visual block.
MaxGeomJoints == 0
\* The largest number of joints of a URDF model whose joints carry every
\* combination of type and limits, and the largest number of joint names.
MaxJoints == 2

\* ----------------------------------------------------------------- strings

Null == [null |-> TRUE]

EmptyString == << >>
FilePrefix == <<"f", "i", "l", "e", ":", "/", "/">>
PackagePrefix == <<"p", "a", "c", "k", "a", "g", "e", ":", "/", "/">>

\* uri.find(prefix) == 0
StartsWith(s, prefix) ==
  /\ Len(s) >= Len(prefix)
  /\ SubSeq(s, 1, Len(prefix)) = prefix

\* uri.erase(0, n); std::string::erase clamps n to the length (npos erases all)
Erase(s, n) == SubSeq(s, n + 1, Len(s))

\* uri.find("/"): the number of characters before the first '/', or npos.
\* Both users (substr(0, n) and erase(0, n)) clamp npos to the length, which
\* is what is returned here when there is no '/'.
FindSlash(s) ==
  IF \E i \in 1..Len(s) : s[i] = "/"
  THEN (CHOOSE i \in 1..Len(s) : s[i] = "/" /\ \A j \in 1..(i - 1) : s[j] # "/") - 1
  ELSE Len(s)

\* boost::filesystem::path::operator/= : nothing for an empty operand, else a
\* separator is added unless the operand starts with one or the path ends
\* with one (or is empty).
PathAppend(base, rel) ==
  IF rel = EmptyString THEN base
  ELSE IF rel[1] = "/" \/ base = EmptyString \/ base[Len(base)] = "/"
       THEN base \o rel
       ELSE base \o <<"/">> \o rel

\* -------------------------------------------------------------- resolveURI

\* resolveURI with an empty package path left out of the cache.
resolveURI_NoEmptyCache(path, package_cache, getPath) ==
  IF StartsWith(path, FilePrefix)
  THEN [ret |-> Erase(path, Len(FilePrefix)), cache |-> package_cache,
        warn |-> {}, asked |-> << >>]
  ELSE IF StartsWith(path, PackagePrefix)
  THEN LET uri == Erase(path, Len(PackagePrefix))
           package_end == FindSlash(uri)
           package == SubSeq(uri, 1, package_end)
           hit == package \in DOMAIN package_cache
           package_path == IF hit THEN package_cache[package] ELSE getPath
           cache == IF hit \/ package_path = EmptyString THEN package_cache
                    ELSE (package :> package_path) @@ package_cache
           asked == IF hit THEN << >> ELSE <<package>>
       IN IF package_path = EmptyString
          THEN [ret |-> EmptyString, cache |-> cache,
                warn |-> {[msg |-> "Unable to find package", arg |-> package]}, asked |-> asked]
          ELSE [ret |-> PathAppend(package_path, Erase(uri, package_end)),
                cache |-> cache, warn |-> {}, asked |-> asked]
  ELSE [ret |-> EmptyString, cache |-> package_cache,
        warn |-> {[msg |-> "Cannot handle mesh URI type", arg |-> EmptyString]}, asked |-> << >>]

\* The result of one call: the returned path, the cache after the call, the
\* warnings logged, and the package names asked (in order) of
\* ros::package::getPath. getPath is the reply ros::package::getPath would
\* give to this call.
resolveURI(path, package_cache, getPath) ==
  IF StartsWith(path, FilePrefix)
  THEN [ret |-> Erase(path, Len(FilePrefix)), cache |-> package_cache,
        warn |-> {}, asked |-> << >>]
  ELSE IF StartsWith(path, PackagePrefix)
  THEN LET uri == Erase(path, Len(PackagePrefix))
           package_end == FindSlash(uri)
           package == SubSeq(uri, 1, package_end)
           hit == package \in DOMAIN package_cache
           package_path == IF hit THEN package_cache[package] ELSE getPath
           cache == IF hit THEN package_cache
                    ELSE (package :> package_path) @@ package_cache
           asked == IF hit THEN << >> ELSE <<package>>
       IN IF package_path = EmptyString
          THEN [ret |-> EmptyString, cache |-> cache,
                warn |-> {[msg |-> "Unable to find package", arg |-> package]}, asked |-> asked]
          ELSE [ret |-> PathAppend(package_path, Erase(uri, package_end)),
                cache |-> cache, warn |-> {}, asked |-> asked]
  ELSE [ret |-> EmptyString, cache |-> package_cache,
        warn |-> {[msg |-> "Cannot handle mesh URI type", arg |-> EmptyString]}, asked |-> << >>]

\* ------------------------------------------------- conversions (lines 46-67)

URDFVectorToRaveVector(vector) == vector

URDFPoseToRaveTransform(pose) == [rot |-> pose.rotation, trans |-> pose.position]

\* OpenRAVE::Transform(): what a LinkInfo or GeometryInfo holds until set
IdentityTransform == [rot |-> "I", trans |-> <<0, 0, 0>>]

\* urdf::Rotation::operator*(Vector3), for the two rotations of the model:
\* the identity and a quarter turn about z
Rotate(rotation, v) ==
  IF rotation = "Rz90" THEN <<0 - v[2], v[1], v[3]>> ELSE v

\* ------------------------------------------- URDFJointTypeToRaveJointType

JointTypes ==
  {"REVOLUTE", "PRISMATIC", "FIXED", "CONTINUOUS", "PLANAR", "FLOATING",
   "UNKNOWN", "OUT_OF_ENUM"}

\* The table with FIXED active, and the table with PLANAR accepted.
URDFJointTypeToRaveJointType_FixedActive(type) ==
  CASE type = "REVOLUTE" -> [throws |-> FALSE, type |-> "JointRevolute", enabled |-> TRUE]
    [] type = "PRISMATIC" -> [throws |-> FALSE, type |-> "JointSlider", enabled |-> TRUE]
    [] type = "FIXED" -> [throws |-> FALSE, type |-> "JointHinge", enabled |-> TRUE]
    [] type = "CONTINUOUS" -> [throws |-> FALSE, type |-> "JointHinge", enabled |-> TRUE]
    [] OTHER -> [throws |-> TRUE]

URDFJointTypeToRaveJointType_PlanarAccepted(type) ==
  CASE type = "REVOLUTE" -> [throws |-> FALSE, type |-> "JointRevolute", enabled |-> TRUE]
    [] type = "PRISMATIC" -> [throws |-> FALSE, type |-> "JointSlider", enabled |-> TRUE]
    [] type = "FIXED" -> [throws |-> FALSE, type |-> "JointHinge", enabled |-> FALSE]
    [] type = "CONTINUOUS" -> [throws |-> FALSE, type |-> "JointHinge", enabled |-> TRUE]
    [] type = "PLANAR" -> [throws |-> FALSE, type |-> "JointHinge", enabled |-> TRUE]
    [] OTHER -> [throws |-> TRUE]

\* Lines 125-144. [throws |-> TRUE] is the openrave_exception of the default
\* branch.
URDFJointTypeToRaveJointType(type) ==
  CASE type = "REVOLUTE" -> [throws |-> FALSE, type |-> "JointRevolute", enabled |-> TRUE]
    [] type = "PRISMATIC" -> [throws |-> FALSE, type |-> "JointSlider", enabled |-> TRUE]
    [] type = "FIXED" -> [throws |-> FALSE, type |-> "JointHinge", enabled |-> FALSE]
    [] type = "CONTINUOUS" -> [throws |-> FALSE, type |-> "JointHinge", enabled |-> TRUE]
    [] OTHER -> [throws |-> TRUE]

\* ------------------------------------------------------------------ inputs

\* A field the code leaves as the OpenRAVE constructor set it, and a field
\* the code assigned.
HostDefault == [set |-> FALSE]
Val(x) == [set |-> TRUE, v |-> x]

\* Mesh file names: a package URI with a relative path, a package URI that is
\* the package name alone, a file URI, and a name with neither prefix.
UriPackageP == PackagePrefix \o <<"p", "/", "m">>
UriPackageQ == PackagePrefix \o <<"q">>
UriFile == FilePrefix \o <<"/", "m">>
UriPlain == <<"m">>
\* "package://or_urdf/empty.iv" (line 159)
UriEmptyIv ==
  PackagePrefix \o <<"o", "r", "_", "u", "r", "d", "f", "/",
                     "e", "m", "p", "t", "y", ".", "i", "v">>

\* What ros::package::getPath may answer: nothing, or a directory.
Paths == {EmptyString, <<"/", "o">>}

Sphere == [type |-> "SPHERE", radius |-> 2]
Box == [type |-> "BOX", dim |-> <<2, 4, 6>>]
Cylinder == [type |-> "CYLINDER", radius |-> 1, length |-> 3]
Mesh(filename) == [type |-> "MESH", filename |-> filename]
\* a type field that is none of the four enumerators of urdf::Geometry
OutOfEnum == [type |-> "OUT_OF_ENUM"]

Pose(p, r) == [position |-> p, rotation |-> r]
CollisionOrigin == Pose(<<0, 0, 1>>, "I")
VisualOrigin == Pose(<<0, 0, 2>>, "Rz90")
InertialOrigin == Pose(<<0, 0, 3>>, "I")

Collisions ==
  {Null} \cup
  {[origin |-> CollisionOrigin, geometry |-> g] :
     g \in {Sphere, Box, Cylinder, OutOfEnum,
            Mesh(UriPackageP), Mesh(UriPackageQ), Mesh(UriFile), Mesh(UriPlain)}}

Red == [r |-> 1, g |-> 0, b |-> 0, a |-> 1]

Visuals ==
  {Null} \cup
  {[origin |-> VisualOrigin, geometry |-> g, material |-> Null] :
     g \in {Sphere, Cylinder, Mesh(UriPackageQ), Mesh(UriPlain)}} \cup
  {[origin |-> VisualOrigin, geometry |-> g, material |-> [color |-> Red]] :
     g \in {Box, OutOfEnum, Mesh(UriPackageP), Mesh(UriFile)}}

Inertial == [mass |-> 5, origin |-> InertialOrigin, ixx |-> 1, iyy |-> 2, izz |-> 3]

JointNameList == <<"ja", "jb", "jc", "jd", "je", "jf">>
JointNames == {JointNameList[i] : i \in 1..MaxJoints}
NameIndex(name) == CHOOSE i \in 1..Len(JointNameList) : JointNameList[i] = name

Limits == [lower |-> 0 - 1, upper |-> 2, velocity |-> 3, effort |-> 4]

\* The joint called name: the root link is its parent, its child link is
\* named after it.
Joint(name, type, limits) ==
  [name |-> name, type |-> type,
   parent_link_name |-> <<"link", "base">>, child_link_name |-> <<"link", name>>,
   parent_to_joint_origin_transform |->
     Pose(<<NameIndex(name), 0, 0>>, IF NameIndex(name) % 2 = 1 THEN "Rz90" ELSE "I"),
   axis |-> <<1, 0, 0>>,
   limits |-> limits]

Link(name, parent_joint, inertial, collision, visual) ==
  [name |-> name, parent_joint |-> parent_joint, inertial |-> inertial,
   collision |-> collision, visual |-> visual]

\* Sequences in ascending order of a set of joint names: the iteration
\* order of the std::map model.joints_ (and of the links of getLinks, whose
\* source is the std::map links_: "base" sorts before every child link).
RECURSIVE SortedNames(_)
SortedNames(S) ==
  IF S = {} THEN << >>
  ELSE LET n == CHOOSE x \in S : \A y \in S : NameIndex(x) <= NameIndex(y)
       IN <<n>> \o SortedNames(S \ {n})

\* The side file: not openable, openable but not YAML, YAML without the
\* "joints" key, or YAML whose "joints" maps names to indices.
\* jmap is the std::map the "joints" value is read into: empty without the key.
Config(opens, parses, has_joints, jmap) ==
  [opens |-> opens, parses |-> parses, has_joints |-> has_joints, jmap |-> jmap]
NoSideFile == Config(FALSE, FALSE, FALSE, << >>)
BadSideFile == Config(TRUE, FALSE, FALSE, << >>)
NoJointsKey == Config(TRUE, TRUE, FALSE, << >>)

\* Every std::map<std::string, int> over the joint names with indices up to
\* MaxJoints: unique or repeated, in range or one past the end.
JointMaps ==
  UNION {[D -> 0..MaxJoints] : D \in SUBSET JointNames}

Document(ok, links, joints, config) ==
  [ok |-> ok, links |-> links, joints |-> joints, config |-> config]

\* The joints named js (in that order); attrs[name] = <<type, limits>>.
RECURSIVE JointsOf(_, _)
JointsOf(js, attrs) ==
  IF js = << >> THEN << >>
  ELSE <<Joint(Head(js), attrs[Head(js)][1], attrs[Head(js)][2])>> \o
       JointsOf(Tail(js), attrs)

\* The child links of joints i.. ; geom[i + 1] = <<collision, visual>> of the
\* child link of joint i.
RECURSIVE ChildLinks(_, _, _)
ChildLinks(joints, geom, i) ==
  IF i > Len(joints) THEN << >>
  ELSE <<Link(joints[i].child_link_name, joints[i], Null, geom[i + 1][1], geom[i + 1][2])>> \o
       ChildLinks(joints, geom, i + 1)

\* A URDF tree: the root link (the only one with an inertial block) and one
\* child link per joint.
Tree(names, attrs, geom, config) ==
  LET joints == JointsOf(SortedNames(names), attrs)
  IN Document(TRUE,
              <<Link(<<"link", "base">>, Null, Inertial, geom[1][1], geom[1][2])>> \o
                ChildLinks(joints, geom, 1),
              joints, config)

PlainGeom == [i \in 1..(MaxJoints + 1) |-> <<[origin |-> CollisionOrigin, geometry |-> Sphere], Null>>]

\* A model whose links carry the collision and visual blocks of geom.
GeomDocument(n, geom) ==
  Tree({JointNameList[i] : i \in 1..n},
       [x \in {JointNameList[i] : i \in 1..n} |-> <<"REVOLUTE", Limits>>],
       geom, NoSideFile)

\* The types and limits of the joints of the models loaded with a side file.
OrderAttrs == {<<"REVOLUTE", Limits>>, <<"FIXED", Null>>, <<"PLANAR", Null>>}

\* A file urdf::Model::initFile rejects.
Unparsable == Document(FALSE, << >>, << >>, NoSideFile)

\* ------------------------------------------------- load: links (243-369)

\* What the read of a member through a null shared_ptr, or a write past the
\* end of a vector, leaves behind when the process survives it.
Indeterminate == [indeterminate |-> TRUE]

\* OpenRAVE::KinBody::GeometryInfo()
DefaultGeometryInfo ==
  [_t |-> IdentityTransform, _type |-> "GT_None", _vGeomData |-> <<0, 0, 0>>,
   _bVisible |-> TRUE, _bModifiable |-> TRUE,
   _filenamecollision |-> EmptyString, _filenamerender |-> EmptyString,
   _vRenderScale |-> HostDefault, _meshcollision |-> HostDefault,
   _vDiffuseColor |-> HostDefault, _vAmbientColor |-> HostDefault]

URDFColorToRaveVector(color) == <<color.r, color.g, color.b, color.a>>

\* Lines 286-332. The switch has no default branch: a geometry of another
\* type leaves the entry as constructed, and the entry is still appended.
\* mesh_ok: whether ReadTrimeshURI returns a mesh.
CollisionGeometryInfo(link_name, collision, package_cache, getPath, mesh_ok) ==
  LET geom_info == [DefaultGeometryInfo EXCEPT
                      !._t = URDFPoseToRaveTransform(collision.origin),
                      !._bVisible = FALSE, !._bModifiable = FALSE]
      geometry == collision.geometry
      same == [info |-> geom_info, cache |-> package_cache, warn |-> {}, asked |-> << >>]
  IN CASE geometry.type = "MESH" ->
            LET r == resolveURI(geometry.filename, package_cache, getPath)
            IN [info |-> [geom_info EXCEPT
                            !._filenamecollision = r.ret,
                            !._type = "GT_TriMesh",
                            !._meshcollision = IF mesh_ok THEN Val(r.ret) ELSE HostDefault],
                cache |-> r.cache,
                warn |-> r.warn \cup
                         (IF mesh_ok THEN {}
                          ELSE {[msg |-> "Failed loading collision mesh", arg |-> link_name]}),
                asked |-> r.asked]
       [] geometry.type = "SPHERE" ->
            [same EXCEPT !.info = [geom_info EXCEPT
               !._vGeomData = <<geometry.radius, geometry.radius, geometry.radius>>,
               !._type = "GT_Sphere"]]
       [] geometry.type = "BOX" ->
            [same EXCEPT !.info = [geom_info EXCEPT
               !._vGeomData = <<geometry.dim[1] \div 2, geometry.dim[2] \div 2,
                                geometry.dim[3] \div 2>>,
               !._type = "GT_Box"]]
       [] geometry.type = "CYLINDER" ->
            [same EXCEPT !.info = [geom_info EXCEPT
               !._vGeomData = <<geometry.radius, geometry.length, 0>>,
               !._type = "GT_Cylinder"]]
       [] OTHER -> same

\* Lines 338-365. t is the value read at line 340 (collision->origin). The
\* entry is appended whatever the visual geometry's type.
VisualGeometryInfo(link_name, visual, t, package_cache, getPath) ==
  LET geom_info == [DefaultGeometryInfo EXCEPT
                      !._t = t, !._type = "GT_Sphere", !._vGeomData = <<0, 0, 0>>,
                      !._bModifiable = FALSE, !._bVisible = TRUE]
      r == resolveURI(visual.geometry.filename, package_cache, getPath)
      is_mesh == visual.geometry.type = "MESH"
      with_mesh == IF is_mesh
                   THEN [geom_info EXCEPT !._filenamerender = r.ret,
                                          !._vRenderScale = Val(<<1, 1, 1>>)]
                   ELSE geom_info
      with_color == IF visual.material # Null
                    THEN [with_mesh EXCEPT
                            !._vDiffuseColor = Val(URDFColorToRaveVector(visual.material.color)),
                            !._vAmbientColor = Val(URDFColorToRaveVector(visual.material.color))]
                    ELSE with_mesh
  IN [info |-> with_color,
      cache |-> IF is_mesh THEN r.cache ELSE package_cache,
      warn |-> IF is_mesh THEN r.warn
               ELSE {[msg |-> "Only trimeshes are supported for visual geometry",
                      arg |-> link_name]},
      asked |-> IF is_mesh THEN r.asked ELSE << >>]

\* Lines 260-281: the record before its geometries.
LinkInfo(link_ptr) ==
  [_name |-> link_ptr.name,
   _t |-> IF link_ptr.parent_joint # Null
          THEN URDFPoseToRaveTransform(link_ptr.parent_joint.parent_to_joint_origin_transform)
          ELSE IdentityTransform,
   _mass |-> IF link_ptr.inertial # Null THEN Val(link_ptr.inertial.mass) ELSE HostDefault,
   _tMassFrame |-> IF link_ptr.inertial # Null
                   THEN URDFPoseToRaveTransform(link_ptr.inertial.origin)
                   ELSE IdentityTransform,
   _vinertiamoments |-> IF link_ptr.inertial # Null
                        THEN Val(<<link_ptr.inertial.ixx, link_ptr.inertial.iyy,
                                   link_ptr.inertial.izz>>)
                        ELSE HostDefault,
   _vgeometryinfos |-> << >>]

\* ---------------------------------------------- load: ordering (371-406)

\* The BOOST_FOREACH of lines 391-400 over the joints left to visit:
\* ordered_joints[it->second] = joint_ptr, or push_back. A write at an index
\* that is not below the vector's size at that moment is out of bounds: it is
\* recorded, and changes nothing of the vector.
RECURSIVE PlaceJoints(_, _, _)
PlaceJoints(ordered_joints, joints, jmap) ==
  IF joints = << >>
  THEN [ordered |-> ordered_joints, out_of_bounds |-> FALSE]
  ELSE LET joint_ptr == Head(joints)
       IN IF joint_ptr.name \in DOMAIN jmap
          THEN IF jmap[joint_ptr.name] < Len(ordered_joints)
               THEN PlaceJoints([ordered_joints EXCEPT ![jmap[joint_ptr.name] + 1] = joint_ptr],
                                Tail(joints), jmap)
               ELSE [PlaceJoints(ordered_joints, Tail(joints), jmap)
                       EXCEPT !.out_of_bounds = TRUE]
          ELSE PlaceJoints(Append(ordered_joints, joint_ptr), Tail(joints), jmap)

\* ordered_joints.resize(n) of an empty vector: n null pointers
RECURSIVE NullPointers(_)
NullPointers(n) == IF n = 0 THEN << >> ELSE Append(NullPointers(n - 1), Null)

\* The joint order with the side file ignored.
OrderedJoints_MapOrder(joints, config) ==
  [ordered |-> joints, out_of_bounds |-> FALSE]

\* Lines 390-406: with an open side file, a vector of jmap.size() null
\* pointers filled by PlaceJoints; without, the joints in map order.
OrderedJoints(joints, config) ==
  IF config.opens
  THEN PlaceJoints(NullPointers(Cardinality(DOMAIN config.jmap)), joints, config.jmap)
  ELSE [ordered |-> joints, out_of_bounds |-> FALSE]

\* std::ifstream fin(config_filename) and fin.is_open() (lines 379-380)
OpenSideFile(config) == IF config.opens THEN "open" ELSE "not_open"

\* The stream left as it was when load ends.
FinLeaked(f) == f

\* fin is a local of load (line 379) that nothing closes: its destructor
\* closes it when load returns (line 483) or an exception unwinds load.
FinWhenLoadEnds(f) == "closed"

\* ------------------------------------------------ load: joints (408-463)

\* The limits without the zero limits of an inactive joint.
JointLimits_NoSynthesis(limits, enabled) ==
  IF limits # Null
  THEN [_vlowerlimit |-> Val(limits.lower), _vupperlimit |-> Val(limits.upper),
        _vmaxvel |-> Val(limits.velocity), _vmaxtorque |-> Val(limits.effort)]
  ELSE [_vlowerlimit |-> HostDefault, _vupperlimit |-> HostDefault,
        _vmaxvel |-> HostDefault, _vmaxtorque |-> HostDefault]

\* Lines 450-460.
JointLimits(limits, enabled) ==
  IF limits # Null
  THEN [_vlowerlimit |-> Val(limits.lower), _vupperlimit |-> Val(limits.upper),
        _vmaxvel |-> Val(limits.velocity), _vmaxtorque |-> Val(limits.effort)]
  ELSE IF ~enabled
  THEN [_vlowerlimit |-> Val(0), _vupperlimit |-> Val(0),
        _vmaxvel |-> HostDefault, _vmaxtorque |-> HostDefault]
  ELSE [_vlowerlimit |-> HostDefault, _vupperlimit |-> HostDefault,
        _vmaxvel |-> HostDefault, _vmaxtorque |-> HostDefault]

\* One iteration of the loop of line 409 on a joint: the exception of the
\* type table, or the JointInfo pushed at line 462.
JointInfo(joint_ptr) ==
  LET t == URDFJointTypeToRaveJointType(joint_ptr.type)
  IN IF t.throws
     THEN [throws |-> TRUE]
     ELSE [throws |-> FALSE,
           info |->
             [_name |-> joint_ptr.name,
              _linkname0 |-> joint_ptr.parent_link_name,
              _linkname1 |-> joint_ptr.child_link_name,
              _vanchor |-> URDFVectorToRaveVector(
                             joint_ptr.parent_to_joint_origin_transform.position),
              _type |-> t.type,
              _bIsActive |-> t.enabled,
              _vaxes |-> URDFVectorToRaveVector(
                           IF t.enabled
                           THEN Rotate(joint_ptr.parent_to_joint_origin_transform.rotation,
                                       joint_ptr.axis)
                           ELSE <<1, 0, 0>>),
              limits |-> JointLimits(joint_ptr.limits, t.enabled)]]

\* What an iteration on a null joint_ptr does when the process survives the
\* reads of lines 411-451: the type table throws on the value read as the
\* type, or a record of indeterminate content is pushed.
IndeterminateJointInfos ==
  {[throws |-> TRUE],
   [throws |-> FALSE,
    info |-> [_name |-> Indeterminate, _linkname0 |-> Indeterminate,
              _linkname1 |-> Indeterminate, _vanchor |-> Indeterminate,
              _type |-> Indeterminate, _bIsActive |-> Indeterminate,
              _vaxes |-> Indeterminate, limits |-> Indeterminate]]}

\* ------------------------------------------------------------------- state

VARIABLES
  pc,              \* where load is: idle, links, ordering, joints, construct,
                   \* setname, register, done, failed (threw), crashed
  doc,             \* the parsed urdf::Model and the side file of this load
  link_list,       \* the links still to translate
  link_infos,      \* the LinkInfo records so far
  ordered_joints,  \* the resolved joint sequence
  next_joint,      \* how many entries of ordered_joints the loop has visited
  joint_infos,     \* the JointInfo records so far
  fin,             \* the side file's stream: none (not constructed), open,
                   \* not_open (the open failed), closed
  host,            \* the calls made to the OpenRAVE environment, in order
  package_cache,   \* resolveURI's static map: package name -> path
  asked,           \* the package names asked of ros::package::getPath, in order
  log,             \* the warnings logged
  empty_filename   \* the static of line 159

vars == <<pc, doc, link_list, link_infos, ordered_joints, next_joint,
          joint_infos, fin, host, package_cache, asked, log, empty_filename>>

NoDocument == Document(FALSE, << >>, << >>, NoSideFile)

\* The process after its static initializers ran (line 159 resolved
\* package://or_urdf/empty.iv through an empty cache) and the module was
\* constructed.
Init ==
  \E getPath \in Paths :
    LET r == resolveURI(UriEmptyIv, << >>, getPath)
    IN /\ pc = "idle"
       /\ doc = NoDocument
       /\ link_list = << >>
       /\ link_infos = << >>
       /\ ordered_joints = << >>
       /\ next_joint = 0
       /\ joint_infos = << >>
       /\ fin = "none"
       /\ host = << >>
       /\ package_cache = r.cache
       /\ asked = r.asked
       /\ log = r.warn
       /\ empty_filename = r.ret

\* Lines 226-246: the arguments are read and the URDF file d is parsed.
LoadDocument(d) ==
  /\ pc = "idle"
  /\ doc' = d
  /\ pc' = IF ~d.ok THEN "failed" ELSE IF d.links = << >> THEN "ordering" ELSE "links"
  /\ link_list' = d.links
  /\ UNCHANGED <<link_infos, ordered_joints, next_joint, joint_infos, fin, host,
                 package_cache, asked, log, empty_filename>>

\* load on each of the inputs of the model: an unparsable file; models whose
\* links carry every combination of collision and visual block; models whose
\* joints carry every type, with and without limits; and models loaded with
\* every side file.
load ==
  /\ pc = "idle"
  /\ \/ LoadDocument(Unparsable)
     \/ \E n \in 0..MaxGeomJoints :
          \E geom \in [1..(n + 1) -> Collisions \X Visuals] :
            LoadDocument(GeomDocument(n, geom))
     \/ \E names \in SUBSET JointNames :
          \E attrs \in [names -> JointTypes \X {Null, Limits}],
             config \in {NoSideFile, NoJointsKey} :
            LoadDocument(Tree(names, attrs, PlainGeom, config))
     \/ \E names \in SUBSET JointNames :
          \E attrs \in [names -> OrderAttrs],
             config \in {BadSideFile} \cup
                        {Config(TRUE, TRUE, TRUE, jmap) : jmap \in JointMaps} :
            LoadDocument(Tree(names, attrs, PlainGeom, config))

\* Lines 255-369: one iteration of the while loop.
TranslateLink ==
  /\ pc = "links"
  /\ link_list # << >>
  /\ LET link_ptr == Head(link_list)
         collision == link_ptr.collision
         visual == link_ptr.visual
         null_deref == visual # Null /\ collision = Null
         \* the replies of ros::package::getPath and ReadTrimeshURI matter
         \* only to a block whose geometry is a mesh
         collision_mesh == collision # Null /\ collision.geometry.type = "MESH"
         visual_mesh == visual # Null /\ visual.geometry.type = "MESH"
     IN \E getPath1 \in IF collision_mesh THEN Paths ELSE {EmptyString},
           getPath2 \in IF visual_mesh THEN Paths ELSE {EmptyString},
           mesh_ok \in IF collision_mesh THEN BOOLEAN ELSE {TRUE},
           ub \in IF null_deref THEN {"crash", "survive"} ELSE {"defined"} :
          LET c == IF collision # Null
                   THEN CollisionGeometryInfo(link_ptr.name, collision, package_cache,
                                              getPath1, mesh_ok)
                   ELSE [info |-> Null, cache |-> package_cache, warn |-> {},
                         asked |-> << >>]
              t == IF collision # Null THEN URDFPoseToRaveTransform(collision.origin)
                   ELSE Indeterminate
              v == IF visual # Null
                   THEN VisualGeometryInfo(link_ptr.name, visual, t, c.cache, getPath2)
                   ELSE [info |-> Null, cache |-> c.cache, warn |-> {}, asked |-> << >>]
              geoms == (IF collision # Null THEN <<c.info>> ELSE << >>) \o
                       (IF visual # Null THEN <<v.info>> ELSE << >>)
              link_info == [LinkInfo(link_ptr) EXCEPT !._vgeometryinfos = geoms]
          IN IF ub = "crash"
             THEN \* fin is not constructed yet
                  /\ pc' = "crashed"
                  /\ UNCHANGED fin
                  /\ package_cache' = c.cache
                  /\ asked' = asked \o c.asked
                  /\ log' = log \cup c.warn
                  /\ link_list' = Tail(link_list)
                  /\ UNCHANGED link_infos
             ELSE /\ pc' = IF Tail(link_list) = << >> THEN "ordering" ELSE "links"
                  /\ package_cache' = v.cache
                  /\ asked' = asked \o c.asked \o v.asked
                  /\ log' = log \cup c.warn \cup v.warn
                  /\ link_list' = Tail(link_list)
                  /\ link_infos' = Append(link_infos, link_info)
                  /\ UNCHANGED fin
  /\ UNCHANGED <<doc, ordered_joints, next_joint, joint_infos, host, empty_filename>>

\* Lines 371-406: the side file is opened and the joint order resolved.
ResolveOrdering ==
  /\ pc = "ordering"
  /\ LET r == OrderedJoints(doc.joints, doc.config)
     IN IF doc.config.opens /\ ~doc.config.parses
        THEN \* the YAML parser throws
             /\ pc' = "failed"
             /\ fin' = FinWhenLoadEnds(OpenSideFile(doc.config))
             /\ UNCHANGED ordered_joints
        ELSE \E ub \in IF r.out_of_bounds THEN {"crash", "survive"} ELSE {"defined"} :
               IF ub = "crash"
               THEN \* the process ends, and its open files with it
                    /\ pc' = "crashed"
                    /\ fin' = "closed"
                    /\ UNCHANGED ordered_joints
               ELSE /\ pc' = IF r.ordered = << >> THEN "construct" ELSE "joints"
                    /\ fin' = OpenSideFile(doc.config)
                    /\ ordered_joints' = r.ordered
  /\ UNCHANGED <<doc, link_list, link_infos, next_joint, joint_infos, host,
                 package_cache, asked, log, empty_filename>>

\* Lines 409-463: one iteration of the loop over ordered_joints.
TranslateJoint ==
  /\ pc = "joints"
  /\ next_joint < Len(ordered_joints)
  /\ LET slot == ordered_joints[next_joint + 1]
     IN \E ub \in IF slot = Null THEN {"crash", "survive"} ELSE {"defined"} :
          IF ub = "crash"
          THEN /\ pc' = "crashed"
               /\ fin' = "closed"
               /\ UNCHANGED <<next_joint, joint_infos>>
          ELSE \E r \in IF slot = Null THEN IndeterminateJointInfos
                        ELSE {JointInfo(slot)} :
                 IF r.throws
                 THEN /\ pc' = "failed"
                      /\ fin' = FinWhenLoadEnds(fin)
                      /\ UNCHANGED <<next_joint, joint_infos>>
                 ELSE /\ pc' = IF next_joint + 1 = Len(ordered_joints)
                               THEN "construct" ELSE "joints"
                      /\ next_joint' = next_joint + 1
                      /\ joint_infos' = Append(joint_infos, r.info)
                      /\ UNCHANGED fin
  /\ UNCHANGED <<doc, link_list, link_infos, ordered_joints, host,
                 package_cache, asked, log, empty_filename>>

\* Lines 479-480: RaveCreateKinBody and kinbody->Init(link_infos, joint_infos).
ConstructBody ==
  /\ pc = "construct"
  /\ host' = Append(host, [call |-> "ConstructBody", links |-> link_infos,
                           joints |-> joint_infos])
  /\ pc' = "setname"
  /\ UNCHANGED <<doc, link_list, link_infos, ordered_joints, next_joint,
                 joint_infos, fin, package_cache, asked, log, empty_filename>>

\* Line 481.
SetName ==
  /\ pc = "setname"
  /\ host' = Append(host, [call |-> "SetName", name |-> "urdf"])
  /\ pc' = "register"
  /\ UNCHANGED <<doc, link_list, link_infos, ordered_joints, next_joint,
                 joint_infos, fin, package_cache, asked, log, empty_filename>>

\* Lines 482-483: GetEnv()->Add(kinbody, true), then load returns true.
Register ==
  /\ pc = "register"
  /\ host' = Append(host, [call |-> "Register", anonymous |-> TRUE])
  /\ pc' = "done"
  /\ fin' = FinWhenLoadEnds(fin)
  /\ UNCHANGED <<doc, link_list, link_infos, ordered_joints, next_joint,
                 joint_infos, package_cache, asked, log, empty_filename>>

Next ==
  \/ load
  \/ TranslateLink
  \/ ResolveOrdering
  \/ TranslateJoint
  \/ ConstructBody
  \/ SetName
  \/ Register

Spec == Init /\ [][Next]_vars

\* -------------------------------------------------------------- properties

SupportedTypes == {"REVOLUTE", "PRISMATIC", "FIXED", "CONTINUOUS"}

\* The names of the joints of the loaded model.
ModelJointNames == {doc.joints[i].name : i \in 1..Len(doc.joints)}

\* The indices of a side file's mapping are unique and in 0..k-1 for its k names.
UniqueInRange(jmap) ==
  /\ \A n \in DOMAIN jmap : jmap[n] < Cardinality(DOMAIN jmap)
  /\ \A n, m \in DOMAIN jmap : n # m => jmap[n] # jmap[m]

\* C1: the (type, active) pair of every translated joint is the one the table
\* gives to its source tag, and a joint of any other tag is never translated:
\* load is about to fail on it or has failed, and the host was not called.
C1_JointTypeTable ==
  /\ \A i \in 1..Len(joint_infos) :
       ordered_joints[i] # Null =>
         LET tag == ordered_joints[i].type
             pair == <<joint_infos[i]._type, joint_infos[i]._bIsActive>>
         IN /\ tag \in SupportedTypes
            /\ tag = "REVOLUTE" => pair = <<"JointRevolute", TRUE>>
            /\ tag = "PRISMATIC" => pair = <<"JointSlider", TRUE>>
            /\ tag = "FIXED" => pair = <<"JointHinge", FALSE>>
            /\ tag = "CONTINUOUS" => pair = <<"JointHinge", TRUE>>
  /\ \A i \in 1..Len(ordered_joints) :
       (ordered_joints[i] # Null /\ ordered_joints[i].type \notin SupportedTypes) =>
         /\ Len(joint_infos) < i
         /\ host = << >>
         /\ next_joint = i - 1 => pc \in {"joints", "failed"}

\* A FIXED joint was translated and load failed on the FLOATING joint after it.
C1_Witness ==
  /\ pc = "failed"
  /\ Len(joint_infos) = 1
  /\ Len(ordered_joints) = 2
  /\ ordered_joints[1] # Null /\ ordered_joints[2] # Null
  /\ ordered_joints[1].type = "FIXED"
  /\ joint_infos[1]._bIsActive = FALSE
  /\ ordered_joints[2].type = "FLOATING"

\* The joint order has been resolved from a readable side file whose "joints"
\* mapping gives unique indices 0..k-1 to k of the model's joint names.
C2_Case ==
  /\ doc.ok
  /\ doc.config.opens /\ doc.config.parses /\ doc.config.has_joints
  /\ DOMAIN doc.config.jmap \subseteq ModelJointNames
  /\ UniqueInRange(doc.config.jmap)
  /\ pc \in {"joints", "construct", "setname", "register", "done", "failed"}

\* C2: in that case every indexed joint is at its index, the unindexed joints
\* follow in the map's iteration order, and with full coverage the sequence
\* is the inverse of the mapping.
C2_OrderingPlacement ==
  C2_Case =>
    LET jmap == doc.config.jmap
        k == Cardinality(DOMAIN jmap)
        unindexed == SelectSeq(doc.joints, LAMBDA j : j.name \notin DOMAIN jmap)
    IN /\ Len(ordered_joints) = Len(doc.joints)
       /\ \A n \in DOMAIN jmap :
            /\ ordered_joints[jmap[n] + 1] # Null
            /\ ordered_joints[jmap[n] + 1].name = n
       /\ SubSeq(ordered_joints, k + 1, Len(ordered_joints)) = unindexed
       /\ k = Len(doc.joints) =>
            \A i \in 1..Len(ordered_joints) : jmap[ordered_joints[i].name] = i - 1

\* A partial mapping, {jb -> 0} on the joints ja and jb: jb first, ja appended.
C2_Witness ==
  /\ C2_Case
  /\ Len(doc.joints) = 2
  /\ DOMAIN doc.config.jmap = {"jb"}
  /\ ordered_joints[1].name = "jb"
  /\ ordered_joints[2].name = "ja"

\* The side file is absent, lacks the "joints" key, or maps names (of the
\* model or not) to unique in-range indices.
C3_Case ==
  /\ doc.ok
  /\ \/ ~doc.config.opens
     \/ doc.config.parses /\ ~doc.config.has_joints
     \/ doc.config.parses /\ doc.config.has_joints /\ UniqueInRange(doc.config.jmap)

\* C3: whenever the host is handed the body in that case, the link records
\* are one per input link and the joint records one per input joint: every
\* entry of the resolved sequence is a joint of the model, each model joint
\* once.
C3_RoundTripCount ==
  (C3_Case /\ host # << >>) =>
    /\ Len(host[1].links) = Len(doc.links)
    /\ \A i \in 1..Len(doc.links) : host[1].links[i]._name = doc.links[i].name
    /\ Len(host[1].joints) = Len(doc.joints)
    /\ \A i \in 1..Len(ordered_joints) : ordered_joints[i] # Null
    /\ \A j \in 1..Len(doc.joints) :
         Cardinality({i \in 1..Len(ordered_joints) : ordered_joints[i] = doc.joints[j]}) = 1

\* Link i of the model has been translated, or load ended while translating it.
Reached(i) == i <= Len(doc.links) - Len(link_list)

\* C4: a link with a Visual block and no Collision block is translated
\* without failure into one geometry entry whose transform is the visual
\* block's own origin.
C4_VisualOnlyLink ==
  \A i \in 1..Len(doc.links) :
    (Reached(i) /\ doc.links[i].visual # Null /\ doc.links[i].collision = Null) =>
      /\ i <= Len(link_infos)
      /\ Len(link_infos[i]._vgeometryinfos) = 1
      /\ link_infos[i]._vgeometryinfos[1]._t =
           URDFPoseToRaveTransform(doc.links[i].visual.origin)

\* C5: a collision geometry whose tag is none of Sphere, Box, Cylinder, Mesh
\* aborts the load: no record of that link, nothing translated after it, no
\* host call.
C5_CollisionTagAborts ==
  \A i \in 1..Len(doc.links) :
    (Reached(i) /\ doc.links[i].collision # Null
       /\ doc.links[i].collision.geometry.type = "OUT_OF_ENUM") =>
      /\ pc = "failed"
      /\ Len(link_infos) < i
      /\ joint_infos = << >>
      /\ host = << >>

\* C6: a visual geometry other than a mesh logs a warning and adds no entry:
\* the record of the link holds the geometry list of the same link without
\* Visual block (its collision entry, if any), and the load does not fail.
C6_VisualNonMeshSkipped ==
  /\ \A i \in 1..Len(link_infos) :
       (doc.links[i].visual # Null /\ doc.links[i].visual.geometry.type # "MESH") =>
         /\ Len(link_infos[i]._vgeometryinfos) =
              (IF doc.links[i].collision # Null THEN 1 ELSE 0)
         /\ [msg |-> "Only trimeshes are supported for visual geometry",
             arg |-> doc.links[i].name] \in log
  /\ (pc = "failed" /\ doc.ok) => link_list = << >>

\* C7: the limits of every translated joint: the Limits block verbatim when
\* there is one; lower = upper = 0 for an inactive joint without one (the
\* others as the host set them); the host's defaults for an active joint
\* without one.
C7_JointLimits ==
  \A i \in 1..Len(joint_infos) :
    ordered_joints[i] # Null =>
      LET joint == ordered_joints[i]
          out == joint_infos[i].limits
      IN /\ joint.limits # Null =>
              /\ out._vlowerlimit = Val(joint.limits.lower)
              /\ out._vupperlimit = Val(joint.limits.upper)
              /\ out._vmaxvel = Val(joint.limits.velocity)
              /\ out._vmaxtorque = Val(joint.limits.effort)
         /\ (joint.limits = Null /\ joint.type = "FIXED") =>
              /\ out._vlowerlimit = Val(0)
              /\ out._vupperlimit = Val(0)
         /\ (joint.limits = Null /\ joint.type \in {"REVOLUTE", "PRISMATIC", "CONTINUOUS"}) =>
              /\ out._vlowerlimit = HostDefault
              /\ out._vupperlimit = HostDefault
              /\ out._vmaxvel = HostDefault
              /\ out._vmaxtorque = HostDefault

\* A FIXED joint and a REVOLUTE joint, both without Limits block, translated.
C7_Witness ==
  /\ Len(joint_infos) = 2
  /\ ordered_joints[1] # Null /\ ordered_joints[2] # Null
  /\ ordered_joints[1].type = "FIXED" /\ ordered_joints[1].limits = Null
  /\ joint_infos[1].limits._vlowerlimit = Val(0)
  /\ ordered_joints[2].type = "REVOLUTE" /\ ordered_joints[2].limits = Null
  /\ joint_infos[2].limits._vupperlimit = HostDefault

\* The names of the host calls made so far.
HostCalls == [i \in 1..Len(host) |-> host[i].call]

\* C8: the host calls are a prefix of ConstructBody, SetName, Register, made
\* only once every link and every entry of the joint sequence is translated;
\* none is made when the URDF file did not parse or a joint of the sequence
\* has an unsupported type.
C8_AtomicAssembly ==
  /\ \E n \in 0..3 : HostCalls = SubSeq(<<"ConstructBody", "SetName", "Register">>, 1, n)
  /\ host # << >> =>
       /\ link_list = << >>
       /\ Len(link_infos) = Len(doc.links)
       /\ next_joint = Len(ordered_joints)
       /\ Len(joint_infos) = Len(ordered_joints)
       /\ host[1].links = link_infos
       /\ host[1].joints = joint_infos
  /\ (pc # "idle" /\ ~doc.ok) => host = << >>
  /\ (\E i \in 1..Len(ordered_joints) :
        ordered_joints[i] # Null /\ ordered_joints[i].type \notin SupportedTypes) =>
       host = << >>
  /\ pc \in {"failed", "crashed"} => host = << >>

\* A load of a model with two joints ran to its end: three calls, in order.
C8_Witness ==
  /\ pc = "done"
  /\ HostCalls = <<"ConstructBody", "SetName", "Register">>
  /\ Len(host[1].joints) = 2
  /\ Len(host[1].links) = 3

\* The mesh file names resolved so far with what resolveURI returned: the
\* static of line 159, and the collision and visual meshes of the links.
Resolutions ==
  {<<UriEmptyIv, empty_filename>>} \cup
  {<<doc.links[i].collision.geometry.filename,
     link_infos[i]._vgeometryinfos[1]._filenamecollision>> :
     i \in {j \in 1..Len(link_infos) :
              doc.links[j].collision # Null /\ doc.links[j].collision.geometry.type = "MESH"}} \cup
  {<<doc.links[i].visual.geometry.filename,
     link_infos[i]._vgeometryinfos[Len(link_infos[i]._vgeometryinfos)]._filenamerender>> :
     i \in {j \in 1..Len(link_infos) :
              doc.links[j].visual # Null /\ doc.links[j].visual.geometry.type = "MESH"}}

\* The package name and the relative path of a package:// reference.
PackageOf(uri) ==
  LET rest == SubSeq(uri, Len(PackagePrefix) + 1, Len(uri))
  IN IF \E i \in 1..Len(rest) : rest[i] = "/"
     THEN SubSeq(rest, 1, (CHOOSE i \in 1..Len(rest) :
                             rest[i] = "/" /\ \A j \in 1..(i - 1) : rest[j] # "/") - 1)
     ELSE rest
RelativeOf(uri) ==
  SubSeq(uri, Len(PackagePrefix) + Len(PackageOf(uri)) + 1, Len(uri))

\* No package was asked of ros::package::getPath twice; the cache holds the
\* packages asked; every package:// resolution returned what the cached path
\* of its package gives: the empty string and a warning for an empty path,
\* else that path joined with the relative path; and no link translation
\* made load fail.
C9_CacheState ==
  /\ \A i, j \in 1..Len(asked) : i # j => asked[i] # asked[j]
  /\ DOMAIN package_cache = {asked[i] : i \in 1..Len(asked)}
  /\ \A r \in Resolutions :
       StartsWith(r[1], PackagePrefix) =>
         /\ PackageOf(r[1]) \in DOMAIN package_cache
         /\ LET path == package_cache[PackageOf(r[1])]
            IN IF path = EmptyString
               THEN /\ r[2] = EmptyString
                    /\ [msg |-> "Unable to find package", arg |-> PackageOf(r[1])] \in log
               ELSE r[2] = path \o RelativeOf(r[1])
  /\ (pc = "failed" /\ doc.ok) => link_list = << >>

\* A step changes or removes no entry of the cache.
C9_CacheStable ==
  \A package \in DOMAIN package_cache :
    /\ package \in DOMAIN package_cache'
    /\ package_cache'[package] = package_cache[package]

\* C9: the package-path service is asked at most once per package name, also
\* for a package whose path is empty; later resolutions use the cached path;
\* a cached entry never changes; an empty package path gives the empty string
\* and a warning, never a failure.
C9_PackageMemoization == []C9_CacheState /\ [][C9_CacheStable]_vars

\* Package p, whose path is empty, was resolved for the collision mesh and
\* again for the visual mesh of a link, and asked once.
C9_Witness ==
  /\ Len(link_infos) >= 1
  /\ doc.links[1].collision # Null /\ doc.links[1].visual # Null
  /\ doc.links[1].collision.geometry = Mesh(UriPackageP)
  /\ doc.links[1].visual.geometry = Mesh(UriPackageP)
  /\ package_cache[<<"p">>] = EmptyString
  /\ Cardinality({i \in 1..Len(asked) : asked[i] = <<"p">>}) = 1
  /\ link_infos[1]._vgeometryinfos[2]._filenamerender = EmptyString

\* C10 as stated: the side file is released before the first joint is
\* translated and before any host call.
C10_ReleasedBeforeJoints ==
  (pc \in {"joints", "construct", "setname", "register"} \/ joint_infos # << >>
     \/ host # << >>) =>
    fin # "open"

\* C10 as amended: the side file is opened by the ordering lookup and not
\* before; when it opened it is held open while the joints are translated and
\* the host is called; it is released when load ends, by return or by
\* exception, whether or not it was read.
C10_ReleasedWhenLoadEnds ==
  /\ pc \in {"idle", "links", "ordering"} => fin = "none"
  /\ pc \in {"joints", "construct", "setname", "register"} =>
       fin = (IF doc.config.opens THEN "open" ELSE "not_open")
  /\ pc \in {"done", "failed", "crashed"} =>
       fin = (IF doc.ok /\ Len(link_infos) = Len(doc.links) THEN "closed" ELSE "none")

\* A side file that opened and was read is still open after the first of two
\* joints was translated.
C10_Witness ==
  /\ pc = "joints"
  /\ doc.config.opens /\ doc.config.has_joints
  /\ Len(joint_infos) = 1
  /\ fin = "open"

====
